---- MODULE Spec2Model ----
(***************************************************************************)
(* A state-machine model of openclaw-board-installer: the interactive      *)
(* installer (src/src/installer.ts), the management commands               *)
(* (src/unnamed/part_000, the module cli.ts imports as ./manage.js) and    *)
(* the command-line entry (src/src/cli.ts).                                *)
(*                                                                         *)
(* Strings the program parses or formats are sequences of one-character    *)
(* strings, so that parseInt, String(n) and the PORT=(\d+) match are       *)
(* computed the way JavaScript computes them.  The literal PORT= is one    *)
(* token of a file's content.                                              *)
(***************************************************************************)
EXTENDS Integers, Sequences, FiniteSets, TLC

\* ------------------------------------------------------------- bounds

\* Processes (installer or management runs) started one after another.
MaxRuns == 3
\* Longest text typed at the port prompt in SpecPort.
MaxPortLen == 5
\* Longest .env content (in tokens) drawn in SpecProbe.
MaxEnvLen == 3

\* ---------------------------------------------------- program constants

DEFAULT_PORT == 3000
DEFAULT_INSTALL_DIR == "~/openclaw-board"
\* Another directory the user may type at the directory prompt.
OtherDir == "/srv/board"
Paths == {DEFAULT_INSTALL_DIR, OtherDir}
MIN_PORT == 1
MAX_PORT == 65535
\* getPort's fallback, written as a literal in the management module.
MANAGE_DEFAULT_PORT == 3000

\* ------------------------------------------------------------- strings

Digits == {"0", "1", "2", "3", "4", "5", "6", "7", "8", "9"}

DigitVal(c) ==
  CASE c = "0" -> 0 [] c = "1" -> 1 [] c = "2" -> 2 [] c = "3" -> 3
    [] c = "4" -> 4 [] c = "5" -> 5 [] c = "6" -> 6 [] c = "7" -> 7
    [] c = "8" -> 8 [] c = "9" -> 9

DigitChar(d) ==
  CASE d = 0 -> "0" [] d = 1 -> "1" [] d = 2 -> "2" [] d = 3 -> "3"
    [] d = 4 -> "4" [] d = 5 -> "5" [] d = 6 -> "6" [] d = 7 -> "7"
    [] d = 8 -> "8" [] d = 9 -> "9"

\* The number of leading characters of s that are decimal digits.
RECURSIVE DigitRun(_)
DigitRun(s) ==
  IF s = <<>> \/ Head(s) \notin Digits THEN 0 ELSE 1 + DigitRun(Tail(s))

\* The value of a sequence of decimal digits (0 for the empty one).
RECURSIVE DigitsValue(_)
DigitsValue(s) ==
  IF s = <<>> THEN 0
  ELSE 10 * DigitsValue(SubSeq(s, 1, Len(s) - 1)) + DigitVal(s[Len(s)])

\* s without its leading white space.
RECURSIVE TrimStart(_)
TrimStart(s) ==
  IF s # <<>> /\ Head(s) = " " THEN TrimStart(Tail(s)) ELSE s

\* JavaScript's parseInt(s, 10): leading white space is skipped, one sign is
\* read, then the longest run of digits; whatever follows is ignored.  With no
\* digit the result is NaN.
parseInt(s) ==
  LET t == TrimStart(s)
      signed == t # <<>> /\ Head(t) \in {"+", "-"}
      u == IF signed THEN Tail(t) ELSE t
      k == DigitRun(u)
      v == DigitsValue(SubSeq(u, 1, k))
  IN  IF k = 0 THEN [nan |-> TRUE, num |-> 0]
      ELSE [nan |-> FALSE, num |-> IF signed /\ Head(t) = "-" THEN 0 - v ELSE v]

\* JavaScript's String(n) (a template's ${n}) of a natural number.
RECURSIVE NumToString(_)
NumToString(n) ==
  IF n < 10 THEN <<DigitChar(n)>>
  ELSE NumToString(n \div 10) \o <<DigitChar(n % 10)>>

\* content.match(/PORT=(\d+)/): the first place where the token PORT= is
\* followed by a digit, and the digits captured there; NoMatch otherwise.
NoMatch == [found |-> FALSE, group |-> <<>>]

RECURSIVE MatchPort(_)
MatchPort(content) ==
  IF Len(content) < 2 THEN NoMatch
  ELSE IF Head(content) = "PORT=" /\ content[2] \in Digits
       THEN [found |-> TRUE,
             group |-> SubSeq(Tail(content), 1, DigitRun(Tail(content)))]
       ELSE MatchPort(Tail(content))

\* ---------------------------------------------------------------- state

VARIABLES
  \* The machine the program runs on.
  platform,     \* process.platform
  tools,        \* the commands `command -v` finds
  fs,           \* per path: whether the directory exists, what it holds, its .env
  agentsDir,    \* whether ~/Library/LaunchAgents exists
  plist,        \* ~/Library/LaunchAgents/com.openclaw.board.plist
  loaded,       \* whether launchd has the service loaded
  db,           \* the openclaw_board database: "absent", "empty" or "migrated"
  board,        \* the board's server: "stopped", "starting" or "running"
  \* The process being run (one at a time).
  proc,         \* "none", "install" or "manage"
  pc,           \* the statement the process is at
  exitStatus,   \* the process's exit status, NoExit while it runs
  outro,        \* the last message the process printed
  messages,     \* the errors and warnings the process logged, in order
  trace,        \* the external commands and file writes of this process, in order
  snapshot,     \* the machine as it was when this process started
  runs,         \* processes started so far
  previous,     \* the command and exit status of the process before this one
  dbCreations,  \* successful creations of the database so far
  \* runInstaller's locals.
  existing, action, confirmDelete, installDir, portInput, autoStart,
  lastPrompt,   \* the prompt answered last, and its result
  lastError,    \* the validation message shown last, and the text it refused
  \* runManage's locals.
  argv,         \* process.argv[2], while cli.ts is dispatching on it
  command,      \* runManage's parameter
  port,         \* getPort() at runManage's entry
  caller,       \* the command that called runManage again ("" at top level)
  probed        \* isRunning() as the running case read it first

machine == <<platform, tools, fs, agentsDir, plist, loaded, db, board>>
process ==
  <<proc, pc, exitStatus, outro, messages, trace, snapshot, runs, previous,
    dbCreations>>
installerLocals ==
  <<existing, action, confirmDelete, installDir, portInput, autoStart,
    lastPrompt, lastError>>
manageLocals == <<argv, command, port, caller, probed>>
vars == <<machine, process, installerLocals, manageLocals>>

NoExit == 0 - 1
CancelSymbol == "Symbol(clack:cancel)"
Unset == "unset"

\* What a directory can hold besides the checkout and its .env file (what git,
\* npm and prisma put there is theirs, and not modelled).
Parts == {"logs", "stdout.log"}

NoEnv == [state |-> "absent", content |-> <<>>]
NoDir == [exists |-> FALSE, parts |-> {}, env |-> NoEnv]
NoPlist == [present |-> FALSE, npmPath |-> "", WorkingDirectory |-> "",
            PORT |-> <<>>, logs |-> ""]

\* Everything a run can change outside the process itself.
Machine ==
  [fs |-> fs, agentsDir |-> agentsDir, plist |-> plist, loaded |-> loaded,
   db |-> db, board |-> board, tools |-> tools]

\* -------------------------------------------------------------- probes

\* A call's outcome: a value, or an exception.
Returned(v) == [threw |-> FALSE, val |-> v]
Thrown == [threw |-> TRUE, val |-> <<>>]

commandExists(cmd) == cmd \in tools

existsSync(path) == path \in Paths /\ fs[path].exists

existsEnv(dir) == existsSync(dir) /\ fs[dir].env.state # "absent"

\* readFileSync(join(dir, '.env'), 'utf-8')
readEnv(dir) ==
  IF existsSync(dir) /\ fs[dir].env.state = "file"
  THEN Returned(fs[dir].env.content)
  ELSE Thrown

Null == [isNull |-> TRUE, installDir |-> "", port |-> 0, hasLaunchAgent |-> FALSE]

\* detectExistingInstall testing the directory alone, not its .env.
detectExistingInstallDirOnly ==
  IF ~existsSync(DEFAULT_INSTALL_DIR)
  THEN Returned(Null)
  ELSE LET r == readEnv(DEFAULT_INSTALL_DIR)
           portMatch == MatchPort(r.val)
           p == IF r.threw THEN DEFAULT_PORT
                ELSE IF portMatch.found THEN parseInt(portMatch.group).num
                ELSE DEFAULT_PORT
       IN  Returned([isNull |-> FALSE,
                     installDir |-> DEFAULT_INSTALL_DIR,
                     port |-> p,
                     hasLaunchAgent |-> plist.present])

\* detectExistingInstall: null unless the default directory and its .env exist;
\* the port is read inside try/catch, the default kept when the read throws.
detectExistingInstall ==
  IF ~existsSync(DEFAULT_INSTALL_DIR) \/ ~existsEnv(DEFAULT_INSTALL_DIR)
  THEN Returned(Null)
  ELSE LET r == readEnv(DEFAULT_INSTALL_DIR)
           portMatch == MatchPort(r.val)
           p == IF r.threw THEN DEFAULT_PORT      \* catch: use default
                ELSE IF portMatch.found THEN parseInt(portMatch.group).num
                ELSE DEFAULT_PORT
       IN  Returned([isNull |-> FALSE,
                     installDir |-> DEFAULT_INSTALL_DIR,
                     port |-> p,
                     hasLaunchAgent |-> plist.present])

\* getPort with the function's try/catch removed.
getPortNoCatch ==
  LET r == readEnv(DEFAULT_INSTALL_DIR)
      match == MatchPort(r.val)
  IN  IF r.threw THEN Thrown
      ELSE Returned(IF match.found THEN parseInt(match.group).num
                    ELSE MANAGE_DEFAULT_PORT)

getPort ==
  LET r == readEnv(DEFAULT_INSTALL_DIR)
      match == MatchPort(r.val)
  IN  IF r.threw THEN Returned(MANAGE_DEFAULT_PORT)
      ELSE Returned(IF match.found THEN parseInt(match.group).num
                    ELSE MANAGE_DEFAULT_PORT)

\* isInstalled looking for an installation in every directory it knows of.
isInstalledAnywhere == \E d \in Paths : existsSync(d) /\ existsEnv(d)

isInstalled == existsSync(DEFAULT_INSTALL_DIR) /\ existsEnv(DEFAULT_INSTALL_DIR)

hasLaunchAgent == plist.present

\* isRunning: curl reaches the board's /api/tasks, or the catch returns false.
isRunning == board = "running"

\* checkPrerequisites: every tool is tested, the missing ones collected in order.
\* checkPrerequisites returning at the first tool it misses.
checkPrerequisitesFailFast ==
  IF ~commandExists("npm") THEN [ok |-> FALSE, missing |-> <<"npm (Node.js)">>]
  ELSE IF ~commandExists("openclaw") THEN [ok |-> FALSE, missing |-> <<"openclaw">>]
  ELSE IF platform = "darwin" /\ ~commandExists("brew")
  THEN [ok |-> FALSE, missing |-> <<"homebrew">>]
  ELSE [ok |-> TRUE, missing |-> <<>>]

checkPrerequisites ==
  LET m1 == IF ~commandExists("npm") THEN <<"npm (Node.js)">> ELSE <<>>
      m2 == IF ~commandExists("openclaw") THEN m1 \o <<"openclaw">> ELSE m1
      m3 == IF platform = "darwin" /\ ~commandExists("brew")
            THEN m2 \o <<"homebrew">> ELSE m2
  IN  [ok |-> Len(m3) = 0, missing |-> m3]

checkPostgres == commandExists("psql")

\* ------------------------------------------------------ installer: steps

NoError == [prompt |-> "", input |-> "", message |-> ""]
NoPrompt == [prompt |-> "", result |-> ""]
Answered(prompt, result) == [prompt |-> prompt, result |-> result]

\* What the user may type at the port prompt.
PortInputs ==
  { <<"3", "0", "0", "0">>, <<"8", "0", "a">>, <<"0">>,
    <<"a">>, <<"6", "5", "5", "3", "6">>, <<>> }

\* What the user may type at the directory prompt.
DirInputs == Paths \cup {""}

\* A confirm prompt's results.
Confirms == {"true", "false", CancelSymbol}

isCancel(v) == v = CancelSymbol

\* One entry of the trace: a command (or file write), where it ran, how it ended.
Entry(cmd, cwd, ok) == [cmd |-> cmd, cwd |-> cwd, ok |-> ok]

\* process.exit(code), or the process ending when runInstaller/runManage returns.
Exit(code, msg) ==
  /\ pc' = "exited"
  /\ exitStatus' = code
  /\ outro' = msg

\* An exception reaching cli.ts's catch: the error is printed, process.exit(1).
Throw == Exit(1, IF proc = "install" THEN "Installation failed:" ELSE "Error:")

\* The port prompt's validate callback: the message, or "undefined" to accept.
ValidatePort(value) ==
  LET num == parseInt(value)
  IN  IF num.nan \/ num.num < MIN_PORT \/ num.num > MAX_PORT
      THEN "Please enter a valid port (1-65535)"
      ELSE "undefined"

\* The directory prompt's validate callback.
ValidateDirNoExistsCheck(value) ==
  IF value = "" THEN "Directory is required" ELSE "undefined"

ValidateDir(value) ==
  IF value = "" THEN "Directory is required"
  ELSE IF existsSync(value) THEN "Directory already exists"
  ELSE "undefined"

\* const config: InstallerConfig = { installDir, port: parseInt(portInput, 10), autoStart }
config ==
  [installDir |-> installDir,
   port |-> parseInt(portInput).num,
   autoStart |-> autoStart = "true"]

\* setupDatabase's return value, one token of the .env content.
DbUrl == "postgresql://USER@localhost:5432/openclaw_board?schema=public"

\* `DATABASE_URL="${dbUrl}"\nPORT=${port}\n`
EnvContent(dbUrl, p) ==
  <<"DATABASE_URL=\"", dbUrl, "\"", "\n", "PORT=">> \o NumToString(p) \o <<"\n">>

\* The plist setupLaunchAgent renders: the fields that vary.
PlistContent(cfg, npmPath) ==
  [present |-> TRUE,
   npmPath |-> npmPath,
   WorkingDirectory |-> cfg.installDir,
   PORT |-> NumToString(cfg.port),
   logs |-> cfg.installDir]

WithPart(dir, part) == [fs EXCEPT ![dir].parts = @ \cup {part}]

\* ------------------------------------------------------------ cli.ts

\* The groups of variables a step leaves alone.
runVars == <<proc, snapshot, runs, previous, manageLocals>>
runVarsDb == <<runVars, dbCreations>>
answerVars == <<action, confirmDelete, installDir, portInput, autoStart, lastError>>
promptVars == <<answerVars, lastPrompt>>
installerVars == <<existing, promptVars>>

InstallArgs == {"", "install"}
ManageArgs ==
  {"help", "status", "start", "stop", "restart", "logs", "open", "update", "bogus"}

\* A new process starts on cli.ts with some argument (none is ""): its locals
\* are fresh and the machine is recorded.
Cli ==
  /\ pc = "exited"
  /\ runs < MaxRuns
  /\ \E arg \in InstallArgs \cup ManageArgs : argv' = arg
  /\ pc' = "cli"
  /\ proc' = "cli"
  /\ exitStatus' = NoExit
  /\ outro' = ""
  /\ existing' = Null
  /\ command' = Unset
  /\ port' = 0
  /\ runs' = runs + 1
  /\ previous' = [command |-> command, exitStatus |-> exitStatus]
  /\ messages' = <<>>
  /\ trace' = <<>>
  /\ snapshot' = Machine
  /\ action' = Unset
  /\ confirmDelete' = Unset
  /\ installDir' = Unset
  /\ portInput' = <<>>
  /\ autoStart' = Unset
  /\ lastError' = NoError
  /\ lastPrompt' = NoPrompt
  /\ UNCHANGED dbCreations
  /\ caller' = ""
  /\ probed' = Unset
  /\ UNCHANGED machine

\* cli.ts with no command or `install`: runInstaller up to its first prompt
\* (console.clear, intro, detectExistingInstall).
CliInstall ==
  /\ pc = "cli"
  /\ argv \in InstallArgs
  /\ argv' = Unset
  /\ proc' = "install"
  /\ LET r == detectExistingInstall
     IN  IF r.threw
         THEN /\ existing' = Null
              /\ Exit(1, "Installation failed:")
         ELSE /\ existing' = r.val
              /\ pc' = IF r.val.isNull THEN "prereq" ELSE "select"
              /\ UNCHANGED <<exitStatus, outro>>
  /\ UNCHANGED <<machine, messages, trace, snapshot, runs, previous, promptVars>>
  /\ UNCHANGED <<command, port, caller, probed, dbCreations>>

\* ------------------------------------------- installer: existing install


\* p.select: What would you like to do?
SelectAction ==
  /\ proc = "install" /\ pc = "select"
  /\ \E a \in {"update", "fresh", "cancel", CancelSymbol} :
       /\ action' = a
       /\ lastPrompt' = Answered("select", a)
       /\ IF isCancel(a) \/ a = "cancel"
          THEN Exit(0, "Cancelled.")
          ELSE /\ pc' = IF a = "update" THEN "update_pull" ELSE "confirmDelete"
               /\ UNCHANGED <<exitStatus, outro>>
  /\ UNCHANGED <<machine, runVarsDb, existing, messages, trace>>
  /\ UNCHANGED <<confirmDelete, installDir, portInput, autoStart, lastError>>

\* runUpdate with a command's failure swallowed: the next command runs anyway.
UpdateStepIgnoresFailure(at, cmd, next) ==
  /\ proc = "install" /\ pc = at
  /\ \E ok \in BOOLEAN :
       /\ ok => existsSync(existing.installDir)
       /\ trace' = Append(trace, Entry(cmd, existing.installDir, ok))
       /\ IF next = "exited"
          THEN /\ db' = IF ok THEN "migrated" ELSE db
               /\ Exit(0, "OpenClaw Board updated")
          ELSE /\ pc' = next
               /\ UNCHANGED <<db, exitStatus, outro>>
  /\ UNCHANGED <<platform, tools, fs, agentsDir, plist, loaded, board>>
  /\ UNCHANGED <<runVarsDb, existing, messages, promptVars>>

\* runUpdate with a catch that puts the checkout back before rethrowing.
UpdateStepRollsBack(at, cmd, next) ==
  /\ proc = "install" /\ pc = at
  /\ \E ok \in BOOLEAN :
       /\ ok => existsSync(existing.installDir)
       /\ IF ok
          THEN /\ trace' = Append(trace, Entry(cmd, existing.installDir, ok))
               /\ IF next = "exited"
                  THEN /\ db' = "migrated"
                       /\ Exit(0, "OpenClaw Board updated")
                  ELSE /\ pc' = next
                       /\ UNCHANGED <<db, exitStatus, outro>>
          ELSE /\ trace' = trace \o
                    << Entry(cmd, existing.installDir, FALSE),
                       Entry("git reset --hard", existing.installDir, TRUE) >>
               /\ Throw
               /\ UNCHANGED db
  /\ UNCHANGED <<platform, tools, fs, agentsDir, plist, loaded, board>>
  /\ UNCHANGED <<runVarsDb, existing, messages, promptVars>>

\* One runCommandLive of runUpdate, in the existing directory: on a nonzero exit
\* the catch stops the spinner and rethrows.
UpdateStep(at, cmd, next) ==
  /\ proc = "install" /\ pc = at
  /\ \E ok \in BOOLEAN :
       /\ ok => existsSync(existing.installDir)
       /\ trace' = Append(trace, Entry(cmd, existing.installDir, ok))
       /\ IF ok
          THEN /\ IF next = "exited"
                  THEN /\ db' = "migrated"
                       /\ Exit(0, "OpenClaw Board updated")     \* process.exit(0)
                  ELSE /\ pc' = next
                       /\ UNCHANGED <<db, exitStatus, outro>>
          ELSE /\ Throw
               /\ UNCHANGED db
  /\ UNCHANGED <<platform, tools, fs, agentsDir, plist, loaded, board>>
  /\ UNCHANGED <<runVarsDb, existing, messages, promptVars>>

UpdatePull == UpdateStep("update_pull", "git pull origin main", "update_npm")
\* runUpdate with the `prisma generate` line lost.
UpdateNpmSkipsGenerate == UpdateStep("update_npm", "npm install", "update_push")
UpdateNpm == UpdateStep("update_npm", "npm install", "update_generate")
UpdateGenerate == UpdateStep("update_generate", "npx prisma generate", "update_push")
UpdatePush == UpdateStep("update_push", "npx prisma db push", "exited")

\* The deletion prompt with only a cancel ending the run (the `|| !confirmDelete`
\* forgotten).
ConfirmDeleteOnlyCancel ==
  /\ proc = "install" /\ pc = "confirmDelete"
  /\ \E c \in Confirms :
       /\ confirmDelete' = c
       /\ lastPrompt' = Answered("confirmDelete", c)
       /\ IF isCancel(c)
          THEN Exit(0, "Cancelled.")
          ELSE /\ pc' = "rm"
               /\ UNCHANGED <<exitStatus, outro>>
  /\ UNCHANGED <<machine, runVarsDb, existing, messages, trace>>
  /\ UNCHANGED <<action, installDir, portInput, autoStart, lastError>>

\* p.confirm: This will delete <dir>. Continue?
ConfirmDelete ==
  /\ proc = "install" /\ pc = "confirmDelete"
  /\ \E c \in Confirms :
       /\ confirmDelete' = c
       /\ lastPrompt' = Answered("confirmDelete", c)
       /\ IF isCancel(c) \/ c # "true"
          THEN Exit(0, "Cancelled.")
          ELSE /\ pc' = "rm"
               /\ UNCHANGED <<exitStatus, outro>>
  /\ UNCHANGED <<machine, runVarsDb, existing, messages, trace>>
  /\ UNCHANGED <<action, installDir, portInput, autoStart, lastError>>

\* The removal taking the service definition with the directory (launchctl
\* unload, then rm of the plist).
RemoveExistingAndAgent ==
  /\ proc = "install" /\ pc = "rm"
  /\ \E ok \in BOOLEAN :
       /\ trace' = Append(trace, Entry("rm -rf", existing.installDir, ok))
       /\ IF ok
          THEN /\ fs' = [fs EXCEPT ![existing.installDir] = NoDir]
               /\ plist' = NoPlist
               /\ loaded' = FALSE
               /\ pc' = "prereq"
               /\ UNCHANGED <<exitStatus, outro>>
          ELSE /\ \E partial \in BOOLEAN :
                    fs' = IF partial
                          THEN [fs EXCEPT ![existing.installDir].env = NoEnv]
                          ELSE fs
               /\ Throw
               /\ UNCHANGED <<plist, loaded>>
  /\ UNCHANGED <<platform, tools, agentsDir, db, board>>
  /\ UNCHANGED <<runVarsDb, existing, messages, promptVars>>

\* runCommandLive('rm', ['-rf', existing.installDir]); a failed rm may have
\* removed part of the directory already.
RemoveExisting ==
  /\ proc = "install" /\ pc = "rm"
  /\ \E ok \in BOOLEAN :
       /\ trace' = Append(trace, Entry("rm -rf", existing.installDir, ok))
       /\ IF ok
          THEN /\ fs' = [fs EXCEPT ![existing.installDir] = NoDir]
               /\ pc' = "prereq"
               /\ UNCHANGED <<exitStatus, outro>>
          ELSE /\ \E partial \in BOOLEAN :
                    fs' = IF partial
                          THEN [fs EXCEPT ![existing.installDir].env = NoEnv]
                          ELSE fs
               /\ Throw
  /\ UNCHANGED <<platform, tools, agentsDir, plist, loaded, db, board>>
  /\ UNCHANGED <<runVarsDb, existing, messages, promptVars>>

\* ---------------------------------------------- installer: fresh install

\* The message p.log.error prints for one missing dependency.
MissingMessage(dep) ==
  CASE dep = "openclaw" -> "OpenClaw is not installed."
    [] dep = "npm (Node.js)" -> "npm/Node.js is not installed."
    [] dep = "homebrew" -> "Homebrew is not installed (required for PostgreSQL)."

\* checkPrerequisites, the report of what is missing, then checkPostgres.
CheckPrerequisites ==
  /\ proc = "install" /\ pc = "prereq"
  /\ trace' = Append(trace, Entry("checkPrerequisites", "", checkPrerequisites.ok))
  /\ IF ~checkPrerequisites.ok
     THEN /\ messages' = messages \o
                [i \in 1..Len(checkPrerequisites.missing) |->
                   MissingMessage(checkPrerequisites.missing[i])]
          /\ Exit(1, "Please install missing dependencies and try again.")
     ELSE /\ pc' = IF checkPostgres THEN "dir" ELSE "pgConfirm"
          /\ UNCHANGED <<messages, exitStatus, outro>>
  /\ UNCHANGED <<machine, runVarsDb, existing, promptVars>>

\* p.confirm: PostgreSQL is not installed. Install it via Homebrew?
ConfirmInstallPg ==
  /\ proc = "install" /\ pc = "pgConfirm"
  /\ \E c \in Confirms :
       /\ lastPrompt' = Answered("installPg", c)
       /\ IF isCancel(c) \/ c # "true"
          THEN Exit(0, "Installation cancelled.")
          ELSE /\ pc' = "pgInstall"
               /\ UNCHANGED <<exitStatus, outro>>
  /\ UNCHANGED <<machine, runVarsDb, existing, messages, trace, answerVars>>

\* installPostgres without its platform test.
InstallPostgresAnyPlatform ==
  /\ proc = "install" /\ pc = "pgInstall"
  /\ \E ok \in BOOLEAN :
       /\ trace' = Append(trace, Entry("brew install postgresql@17", "", ok))
       /\ IF ok
          THEN /\ tools' = tools \cup {"psql"}
               /\ pc' = "pgStart"
               /\ UNCHANGED <<exitStatus, outro>>
          ELSE /\ Throw
               /\ UNCHANGED tools
  /\ UNCHANGED <<platform, fs, agentsDir, plist, loaded, db, board>>
  /\ UNCHANGED <<runVarsDb, existing, messages, promptVars>>

\* installPostgres: the platform test, then brew install postgresql@17.
InstallPostgres ==
  /\ proc = "install" /\ pc = "pgInstall"
  /\ IF platform # "darwin"
     THEN /\ Throw
          /\ UNCHANGED <<tools, trace>>
     ELSE \E ok \in BOOLEAN :
            /\ trace' = Append(trace, Entry("brew install postgresql@17", "", ok))
            /\ IF ok
               THEN /\ tools' = tools \cup {"psql"}
                    /\ pc' = "pgStart"
                    /\ UNCHANGED <<exitStatus, outro>>
               ELSE /\ Throw
                    /\ UNCHANGED tools
  /\ UNCHANGED <<platform, fs, agentsDir, plist, loaded, db, board>>
  /\ UNCHANGED <<runVarsDb, existing, messages, promptVars>>

\* installPostgres: brew services start postgresql@17, then the 3 s wait.
StartPostgres ==
  /\ proc = "install" /\ pc = "pgStart"
  /\ \E ok \in BOOLEAN :
       /\ trace' = Append(trace, Entry("brew services start postgresql@17", "", ok))
       /\ IF ok
          THEN /\ pc' = "dir"
               /\ UNCHANGED <<exitStatus, outro>>
          ELSE Throw
  /\ UNCHANGED <<machine, runVarsDb, existing, messages, promptVars>>

\* p.text: Installation directory.  A rejected value keeps the prompt open.
PromptInstallDir ==
  /\ proc = "install" /\ pc = "dir"
  /\ \E v \in DirInputs \cup {CancelSymbol} :
       IF isCancel(v)
       THEN /\ Exit(0, "Installation cancelled.")
            /\ lastPrompt' = Answered("installDir", v)
            /\ UNCHANGED <<installDir, lastError, trace>>
       ELSE IF ValidateDir(v) # "undefined"
       THEN /\ lastError' = [prompt |-> "installDir", input |-> v,
                             message |-> ValidateDir(v)]
            /\ UNCHANGED <<pc, exitStatus, outro, installDir, trace, lastPrompt>>
       ELSE /\ installDir' = v
            /\ lastPrompt' = Answered("installDir", "text")
            /\ lastError' = NoError
            /\ pc' = "port"
            /\ trace' = Append(trace, Entry("prompt installDir", "", TRUE))
            /\ UNCHANGED <<exitStatus, outro>>
  /\ UNCHANGED <<machine, runVarsDb, existing, messages>>
  /\ UNCHANGED <<action, confirmDelete, portInput, autoStart>>

\* p.text: Port number.  The user types a text into the prompt, or cancels.
PromptPort ==
  /\ proc = "install" /\ pc = "port"
  /\ \/ /\ Exit(0, "Installation cancelled.")          \* p.isCancel(portInput)
        /\ lastPrompt' = Answered("port", CancelSymbol)
        /\ UNCHANGED portInput
     \/ /\ \E v \in PortInputs : portInput' = v
        /\ pc' = "port_submit"
        /\ UNCHANGED <<exitStatus, outro, lastPrompt>>
  /\ UNCHANGED <<machine, runVarsDb, existing, messages, trace>>
  /\ UNCHANGED <<action, confirmDelete, installDir, autoStart, lastError>>

\* The port prompt on Enter: validate decides whether the prompt returns the
\* text; a refused text stays in the prompt with the message.
SubmitPort ==
  /\ proc = "install" /\ pc = "port_submit"
  /\ IF ValidatePort(portInput) # "undefined"
     THEN /\ lastError' = [prompt |-> "port", input |-> "",
                           message |-> ValidatePort(portInput)]
          /\ pc' = "port"
          /\ UNCHANGED <<trace, lastPrompt>>
     ELSE /\ lastPrompt' = Answered("port", "text")
          /\ lastError' = NoError
          /\ pc' = "autostart"
          /\ trace' = Append(trace, Entry("prompt port", "", TRUE))
  /\ UNCHANGED <<machine, runVarsDb, existing, messages, exitStatus, outro>>
  /\ UNCHANGED <<action, confirmDelete, installDir, portInput, autoStart>>

\* The autostart prompt with the p.isCancel test forgotten: the cancel symbol,
\* being truthy, is taken as a yes.
PromptAutoStartIgnoresCancel ==
  /\ proc = "install" /\ pc = "autostart"
  /\ \E c \in Confirms :
       /\ lastPrompt' = Answered("autoStart", c)
       /\ autoStart' = IF isCancel(c) THEN "true" ELSE c
       /\ pc' = "proceed"
       /\ trace' = Append(trace, Entry("prompt autoStart", "", TRUE))
       /\ UNCHANGED <<exitStatus, outro>>
  /\ UNCHANGED <<machine, runVarsDb, existing, messages>>
  /\ UNCHANGED <<action, confirmDelete, installDir, portInput, lastError>>

\* p.confirm: Start automatically on boot?  Only a cancel ends the run here.
PromptAutoStart ==
  /\ proc = "install" /\ pc = "autostart"
  /\ \E c \in Confirms :
       /\ lastPrompt' = Answered("autoStart", c)
       /\ IF isCancel(c)
          THEN /\ Exit(0, "Installation cancelled.")
               /\ UNCHANGED <<autoStart, trace>>
          ELSE /\ autoStart' = c
               /\ pc' = "proceed"
               /\ trace' = Append(trace, Entry("prompt autoStart", "", TRUE))
               /\ UNCHANGED <<exitStatus, outro>>
  /\ UNCHANGED <<machine, runVarsDb, existing, messages>>
  /\ UNCHANGED <<action, confirmDelete, installDir, portInput, lastError>>

\* p.confirm: Proceed with installation?
PromptProceed ==
  /\ proc = "install" /\ pc = "proceed"
  /\ \E c \in Confirms :
       /\ lastPrompt' = Answered("proceed", c)
       /\ IF isCancel(c) \/ c # "true"
          THEN /\ Exit(0, "Installation cancelled.")
               /\ UNCHANGED trace
          ELSE /\ pc' = "clone"
               /\ trace' = Append(trace, Entry("prompt proceed", "", TRUE))
               /\ UNCHANGED <<exitStatus, outro>>
  /\ UNCHANGED <<machine, runVarsDb, existing, messages, answerVars>>

\* ------------------------------------------------ installer: cloneAndSetup

\* runCommandLive('git', ['clone', REPO_URL, installDir]): git refuses a
\* directory that exists, and removes what it created when it fails.
Clone ==
  /\ proc = "install" /\ pc = "clone"
  /\ \E ok \in BOOLEAN :
       /\ ok => ~existsSync(config.installDir)
       /\ trace' = Append(trace, Entry("git clone", "", ok))
       /\ IF ok
          THEN /\ fs' = [fs EXCEPT ![config.installDir] =
                           [exists |-> TRUE, parts |-> {}, env |-> NoEnv]]
               /\ pc' = "npm"
               /\ UNCHANGED <<exitStatus, outro>>
          ELSE /\ Throw
               /\ UNCHANGED fs
  /\ UNCHANGED <<platform, tools, agentsDir, plist, loaded, db, board>>
  /\ UNCHANGED <<runVarsDb, existing, messages, promptVars>>

\* cloneAndSetup with the setupDatabase call lost.
NpmInstallSkipsDb ==
  /\ proc = "install" /\ pc = "npm"
  /\ \E ok \in BOOLEAN :
       /\ ok => existsSync(config.installDir)
       /\ trace' = Append(trace, Entry("npm install", config.installDir, ok))
       /\ IF ok
          THEN /\ pc' = "writeEnv"
               /\ UNCHANGED <<exitStatus, outro>>
          ELSE Throw
  /\ UNCHANGED <<platform, tools, fs, agentsDir, plist, loaded, db, board>>
  /\ UNCHANGED <<runVarsDb, existing, messages, promptVars>>

\* runCommandLive('npm', ['install'], installDir)
NpmInstall ==
  /\ proc = "install" /\ pc = "npm"
  /\ \E ok \in BOOLEAN :
       /\ ok => existsSync(config.installDir)
       /\ trace' = Append(trace, Entry("npm install", config.installDir, ok))
       /\ IF ok
          THEN /\ pc' = "dbcheck"
               /\ UNCHANGED <<exitStatus, outro>>
          ELSE Throw
  /\ UNCHANGED <<platform, tools, fs, agentsDir, plist, loaded, db, board>>
  /\ UNCHANGED <<runVarsDb, existing, messages, promptVars>>

\* setupDatabase without its existence check: createdb is always tried.
DbCheckSkipped ==
  /\ proc = "install" /\ pc = "dbcheck"
  /\ pc' = "createdb"
  /\ UNCHANGED <<machine, runVarsDb, existing, messages, promptVars>>
  /\ UNCHANGED <<exitStatus, outro, trace>>

\* setupDatabase: psql -lqt | cut | grep -qw openclaw_board.  The command fails
\* when the database is absent (and may fail when psql cannot list them).
DbCheck ==
  /\ proc = "install" /\ pc = "dbcheck"
  /\ \E ok \in BOOLEAN :
       /\ ok => db # "absent"
       /\ trace' = Append(trace, Entry("psql -lqt | grep", "", ok))
       /\ pc' = IF ok THEN "writeEnv" ELSE "createdb"
  /\ UNCHANGED <<machine, runVarsDb, existing, messages, promptVars>>
  /\ UNCHANGED <<exitStatus, outro>>

\* setupDatabase: createdb openclaw_board, which fails on an existing database.
CreateDb ==
  /\ proc = "install" /\ pc = "createdb"
  /\ \E ok \in BOOLEAN :
       /\ ok => db = "absent"
       /\ trace' = Append(trace, Entry("createdb", "", ok))
       /\ db' = IF ok THEN "empty" ELSE db
       /\ dbCreations' = IF ok THEN dbCreations + 1 ELSE dbCreations
       /\ pc' = IF ok THEN "writeEnv" ELSE "createdb_su"
  /\ UNCHANGED <<platform, tools, fs, agentsDir, plist, loaded, board>>
  /\ UNCHANGED <<runVars, existing, messages, promptVars>>
  /\ UNCHANGED <<exitStatus, outro>>

\* setupDatabase: psql postgres -c "CREATE DATABASE openclaw_board;", uncaught.
CreateDbAsSuperuser ==
  /\ proc = "install" /\ pc = "createdb_su"
  /\ \E ok \in BOOLEAN :
       /\ ok => db = "absent"
       /\ trace' = Append(trace, Entry("psql postgres -c CREATE DATABASE", "", ok))
       /\ IF ok
          THEN /\ db' = "empty"
               /\ dbCreations' = dbCreations + 1
               /\ pc' = "writeEnv"
               /\ UNCHANGED <<exitStatus, outro>>
          ELSE /\ Throw
               /\ UNCHANGED <<db, dbCreations>>
  /\ UNCHANGED <<platform, tools, fs, agentsDir, plist, loaded, board>>
  /\ UNCHANGED <<runVars, existing, messages, promptVars>>

\* writeFileSync(join(installDir, '.env'), envContent)
WriteEnv ==
  /\ proc = "install" /\ pc = "writeEnv"
  /\ \E ok \in BOOLEAN :
       /\ ok => existsSync(config.installDir)
       /\ trace' = Append(trace, Entry("write .env", config.installDir, ok))
       /\ IF ok
          THEN /\ fs' = [fs EXCEPT ![config.installDir].env =
                           [state |-> "file",
                            content |-> EnvContent(DbUrl, config.port)]]
               /\ pc' = "generate"
               /\ UNCHANGED <<exitStatus, outro>>
          ELSE /\ Throw
               /\ UNCHANGED fs
  /\ UNCHANGED <<platform, tools, agentsDir, plist, loaded, db, board>>
  /\ UNCHANGED <<runVarsDb, existing, messages, promptVars>>

\* prisma generate with a cleanup on failure: the cloned directory is removed
\* before the error is rethrown.
PrismaGenerateRollsBack ==
  /\ proc = "install" /\ pc = "generate"
  /\ \E ok \in BOOLEAN :
       /\ ok => existsSync(config.installDir)
       /\ trace' = Append(trace, Entry("npx prisma generate", config.installDir, ok))
       /\ IF ok
          THEN /\ pc' = "push"
               /\ UNCHANGED <<exitStatus, outro, fs>>
          ELSE /\ Throw
               /\ fs' = [fs EXCEPT ![config.installDir] = NoDir]
  /\ UNCHANGED <<platform, tools, agentsDir, plist, loaded, db, board>>
  /\ UNCHANGED <<runVarsDb, existing, messages, promptVars>>

\* runCommandLive('npx', ['prisma', 'generate'], installDir)
PrismaGenerate ==
  /\ proc = "install" /\ pc = "generate"
  /\ \E ok \in BOOLEAN :
       /\ ok => existsSync(config.installDir)
       /\ trace' = Append(trace, Entry("npx prisma generate", config.installDir, ok))
       /\ IF ok
          THEN /\ pc' = "push"
               /\ UNCHANGED <<exitStatus, outro>>
          ELSE Throw
  /\ UNCHANGED <<platform, tools, fs, agentsDir, plist, loaded, db, board>>
  /\ UNCHANGED <<runVarsDb, existing, messages, promptVars>>

\* runCommandLive('npx', ['prisma', 'db', 'push'], installDir), and what
\* runInstaller does when cloneAndSetup has returned.
PrismaDbPush ==
  /\ proc = "install" /\ pc = "push"
  /\ \E ok \in BOOLEAN :
       /\ ok => existsSync(config.installDir)
       /\ trace' = Append(trace, Entry("npx prisma db push", config.installDir, ok))
       /\ IF ok
          THEN /\ db' = "migrated"
               /\ IF config.autoStart
                  THEN /\ pc' = "launchAgent"
                       /\ UNCHANGED <<exitStatus, outro>>
                  ELSE Exit(0, "Happy tasking!")
          ELSE /\ Throw
               /\ UNCHANGED db
  /\ UNCHANGED <<platform, tools, fs, agentsDir, plist, loaded, board>>
  /\ UNCHANGED <<runVarsDb, existing, messages, promptVars>>

\* --------------------------------------------- installer: setupLaunchAgent

NpmPath == "/usr/local/bin/npm"

\* setupLaunchAgent without its platform test.
LaunchAgentBeginAnyPlatform ==
  /\ proc = "install" /\ pc = "launchAgent"
  /\ agentsDir' = TRUE
  /\ UNCHANGED messages
  /\ \E ok \in BOOLEAN :
       /\ ok => commandExists("npm")
       /\ trace' = Append(trace, Entry("which npm", "", ok))
       /\ IF ok
          THEN /\ pc' = "la_write"
               /\ UNCHANGED <<exitStatus, outro>>
          ELSE Throw
  /\ UNCHANGED <<platform, tools, fs, plist, loaded, db, board>>
  /\ UNCHANGED <<runVarsDb, existing, promptVars>>

\* The platform test, mkdirSync(launchAgentsDir), runCommand('which npm').
LaunchAgentBegin ==
  /\ proc = "install" /\ pc = "launchAgent"
  /\ IF platform # "darwin"
     THEN /\ messages' = Append(messages, "Auto-start is only supported on macOS")
          /\ Exit(0, "Happy tasking!")
          /\ UNCHANGED <<agentsDir, trace>>
     ELSE /\ agentsDir' = TRUE
          /\ UNCHANGED messages
          /\ \E ok \in BOOLEAN :
               /\ ok => commandExists("npm")
               /\ trace' = Append(trace, Entry("which npm", "", ok))
               /\ IF ok
                  THEN /\ pc' = "la_write"
                       /\ UNCHANGED <<exitStatus, outro>>
                  ELSE Throw
  /\ UNCHANGED <<platform, tools, fs, plist, loaded, db, board>>
  /\ UNCHANGED <<runVarsDb, existing, promptVars>>

\* mkdirSync(join(installDir, 'logs')), writeFileSync(plistPath, plistContent)
LaunchAgentWrite ==
  /\ proc = "install" /\ pc = "la_write"
  /\ fs' = WithPart(config.installDir, "logs")
  /\ \E ok \in BOOLEAN :
       /\ trace' = Append(trace, Entry("write plist", "", ok))
       /\ IF ok
          THEN /\ plist' = PlistContent(config, NpmPath)
               /\ pc' = "la_unload"
               /\ UNCHANGED <<exitStatus, outro>>
          ELSE /\ Throw
               /\ UNCHANGED plist
  /\ UNCHANGED <<platform, tools, agentsDir, loaded, db, board>>
  /\ UNCHANGED <<runVarsDb, existing, messages, promptVars>>

\* runCommand(`launchctl unload ${plistPath}`) inside try/catch: a failure is
\* ignored.  Unloading stops the service's process if launchd was running it.
LaunchAgentUnload ==
  /\ proc = "install" /\ pc = "la_unload"
  /\ \E ok \in BOOLEAN :
       /\ trace' = Append(trace, Entry("launchctl unload", "", ok))
       /\ loaded' = IF ok THEN FALSE ELSE loaded
       /\ \E b \in {board, "stopped"} : board' = IF ok THEN b ELSE board
  /\ pc' = "la_load"
  /\ UNCHANGED <<platform, tools, fs, agentsDir, plist, db>>
  /\ UNCHANGED <<runVarsDb, existing, messages, promptVars, exitStatus, outro>>

\* launchctl load inside a try/catch like the unload's: a failure is ignored.
LaunchAgentLoadIgnoresFailure ==
  /\ proc = "install" /\ pc = "la_load"
  /\ \E ok \in BOOLEAN :
       /\ trace' = Append(trace, Entry("launchctl load", "", ok))
       /\ loaded' = IF ok THEN TRUE ELSE loaded
       /\ board' = IF ok /\ board = "stopped" THEN "starting" ELSE board
       /\ fs' = IF ok /\ existsSync(plist.WorkingDirectory)
                THEN WithPart(plist.WorkingDirectory, "stdout.log")
                ELSE fs
       /\ Exit(0, "Happy tasking!")
  /\ UNCHANGED <<platform, tools, agentsDir, plist, db>>
  /\ UNCHANGED <<runVarsDb, existing, messages, promptVars>>

\* runCommand(`launchctl load ${plistPath}`): RunAtLoad starts the board, and
\* launchd opens the log files.
LaunchAgentLoad ==
  /\ proc = "install" /\ pc = "la_load"
  /\ \E ok \in BOOLEAN :
       /\ trace' = Append(trace, Entry("launchctl load", "", ok))
       /\ IF ok
          THEN /\ loaded' = TRUE
               /\ board' = IF board = "stopped" THEN "starting" ELSE board
               /\ fs' = IF existsSync(plist.WorkingDirectory)
                        THEN WithPart(plist.WorkingDirectory, "stdout.log")
                        ELSE fs
               /\ Exit(0, "Happy tasking!")
          ELSE /\ Throw
               /\ UNCHANGED <<loaded, board, fs>>
  /\ UNCHANGED <<platform, tools, agentsDir, plist, db>>
  /\ UNCHANGED <<runVarsDb, existing, messages, promptVars>>

\* ------------------------------------------------------------ runManage

manageFrame ==
  <<proc, snapshot, runs, previous, dbCreations, argv, command, port, messages,
    installerVars>>

\* runManage returning: to the case that called it, or to cli.ts, where the
\* process ends with status 0.
Return(msg) ==
  IF caller = "open"
  THEN /\ pc' = "m_open_url"
       /\ caller' = ""
       /\ outro' = msg
       /\ UNCHANGED exitStatus
  ELSE /\ Exit(0, msg)
       /\ caller' = ""

\* cli.ts with any other command: runManage up to its switch.
CliManage ==
  /\ pc = "cli"
  /\ argv \notin InstallArgs
  /\ argv' = Unset
  /\ proc' = "manage"
  /\ LET arg == argv IN
       /\ command' = arg
       /\ IF arg \in {"help", "--help", "-h"}
          THEN /\ Exit(0, "Usage:")                       \* printHelp(); return
               /\ port' = 0
          ELSE IF ~isInstalled
          THEN /\ Exit(1, "OpenClaw Board is not installed.")
               /\ port' = 0
          ELSE IF getPort.threw
          THEN /\ Exit(1, "Error:")
               /\ port' = 0
          ELSE /\ port' = getPort.val
               /\ IF arg \in {"status", "start", "stop", "restart", "logs",
                              "open", "update"}
                  THEN /\ pc' = "m_" \o arg
                       /\ UNCHANGED <<exitStatus, outro>>
                  ELSE Exit(1, "Unknown command: " \o arg \o " Usage:")
  /\ UNCHANGED <<machine, messages, trace, snapshot, runs, previous>>
  /\ UNCHANGED <<installerVars, caller, probed, dbCreations>>

\* case 'status'
ManageStatus ==
  /\ proc = "manage" /\ pc = "m_status"
  /\ Exit(0, IF isRunning THEN "Status: Running" ELSE "Status: Stopped")
  /\ UNCHANGED <<machine, manageFrame, trace, caller, probed>>

\* A detached `npm start`, or launchd starting the service: the board begins
\* to start unless it is already up.
Started == IF board = "stopped" THEN "starting" ELSE board

\* case 'start': nothing is done when the probe finds the board; otherwise the
\* service is started, or `npm start` is spawned detached.
ManageStart ==
  /\ proc = "manage" /\ pc = "m_start"
  /\ probed' = IF caller = "" THEN (IF isRunning THEN "true" ELSE "false") ELSE probed
  /\ IF isRunning
     THEN /\ Return("Board is already running.")
          /\ UNCHANGED <<trace, board>>
     ELSE IF hasLaunchAgent /\ platform = "darwin"
     THEN \E ok \in BOOLEAN :
            /\ trace' = Append(trace, Entry("launchctl start", "", ok))
            /\ IF ok
               THEN /\ board' = Started
                    /\ pc' = "m_start_wait"
                    /\ UNCHANGED <<exitStatus, outro, caller>>
               ELSE /\ Throw
                    /\ UNCHANGED <<board, caller>>
     ELSE /\ trace' = Append(trace, Entry("spawn npm start", DEFAULT_INSTALL_DIR, TRUE))
          /\ board' = Started
          /\ pc' = "m_start_wait"
          /\ UNCHANGED <<exitStatus, outro, caller>>
  /\ UNCHANGED <<platform, tools, fs, agentsDir, plist, loaded, db>>
  /\ UNCHANGED manageFrame

\* case 'start' after the 3 s wait: one more probe, for the message only.
ManageStartWait ==
  /\ proc = "manage" /\ pc = "m_start_wait"
  /\ Return(IF isRunning THEN "Board started" ELSE "Board may still be starting...")
  /\ UNCHANGED <<machine, manageFrame, trace, probed>>

\* case 'stop' without its early return.
ManageStopNoProbe ==
  /\ proc = "manage" /\ pc = "m_stop"
  /\ probed' = IF isRunning THEN "true" ELSE "false"
  /\ IF hasLaunchAgent /\ platform = "darwin"
     THEN \E ok \in BOOLEAN :
            /\ trace' = Append(trace, Entry("launchctl stop", "", ok))
            /\ IF ok
               THEN /\ \E b \in {"stopped", "starting"} : board' = b
                    /\ Exit(0, "Board stopped")
               ELSE /\ Throw
                    /\ UNCHANGED board
     ELSE \E ok \in BOOLEAN :
            /\ trace' = Append(trace, Entry("pkill -f openclaw-board.*server", "", ok))
            /\ board' = IF ok THEN "stopped" ELSE board
            /\ Exit(0, "Board stopped")
  /\ UNCHANGED <<platform, tools, fs, agentsDir, plist, loaded, db>>
  /\ UNCHANGED <<manageFrame, caller>>

\* case 'stop': nothing is done when the probe does not find the board;
\* otherwise the service is stopped (KeepAlive may start it again), or the
\* server process is killed, a failed pkill being ignored.
ManageStop ==
  /\ proc = "manage" /\ pc = "m_stop"
  /\ probed' = IF isRunning THEN "true" ELSE "false"
  /\ IF ~isRunning
     THEN /\ Exit(0, "Board is not running.")
          /\ UNCHANGED <<trace, board>>
     ELSE IF hasLaunchAgent /\ platform = "darwin"
     THEN \E ok \in BOOLEAN :
            /\ trace' = Append(trace, Entry("launchctl stop", "", ok))
            /\ IF ok
               THEN /\ \E b \in {"stopped", "starting"} : board' = b
                    /\ Exit(0, "Board stopped")
               ELSE /\ Throw
                    /\ UNCHANGED board
     ELSE \E ok \in BOOLEAN :
            /\ trace' = Append(trace, Entry("pkill -f openclaw-board.*server", "", ok))
            /\ board' = IF ok THEN "stopped" ELSE board
            /\ Exit(0, "Board stopped")
  /\ UNCHANGED <<platform, tools, fs, agentsDir, plist, loaded, db>>
  /\ UNCHANGED <<manageFrame, caller>>

\* case 'restart': launchctl kickstart -k, or pkill (a failure ignored), a 1 s
\* wait and a detached `npm start`.
ManageRestart ==
  /\ proc = "manage" /\ pc = "m_restart"
  /\ IF hasLaunchAgent /\ platform = "darwin"
     THEN \E ok \in BOOLEAN :
            /\ trace' = Append(trace, Entry("launchctl kickstart -k", "", ok))
            /\ IF ok
               THEN /\ board' = "starting"
                    /\ pc' = "m_restart_wait"
                    /\ UNCHANGED <<exitStatus, outro, caller>>
               ELSE /\ Throw
                    /\ caller' = ""
                    /\ UNCHANGED board
     ELSE \E ok \in BOOLEAN :
            /\ trace' = trace \o
                 << Entry("pkill -f openclaw-board.*server", "", ok),
                    Entry("spawn npm start", DEFAULT_INSTALL_DIR, TRUE) >>
            /\ board' = IF ok THEN "starting" ELSE Started
            /\ pc' = "m_restart_wait"
            /\ UNCHANGED <<exitStatus, outro, caller>>
  /\ UNCHANGED <<platform, tools, fs, agentsDir, plist, loaded, db>>
  /\ UNCHANGED <<manageFrame, probed>>

\* case 'restart' after the 3 s wait.
ManageRestartWait ==
  /\ proc = "manage" /\ pc = "m_restart_wait"
  /\ Exit(0, IF isRunning THEN "Board restarted" ELSE "Board may still be starting...")
  /\ caller' = ""
  /\ UNCHANGED <<machine, manageFrame, trace, probed>>

\* case 'logs'
ManageLogs ==
  /\ proc = "manage" /\ pc = "m_logs"
  /\ IF platform # "darwin"
     THEN /\ Exit(0, "Log viewing is only supported on macOS.")
          /\ UNCHANGED trace
     ELSE IF "stdout.log" \notin fs[DEFAULT_INSTALL_DIR].parts
     THEN /\ Exit(0, "No logs found yet.")
          /\ UNCHANGED trace
     ELSE \E ok \in BOOLEAN :
            /\ trace' = Append(trace, Entry("tail -50", "", ok))
            /\ IF ok THEN Exit(0, "Recent logs:") ELSE Throw
  /\ UNCHANGED <<machine, manageFrame, caller, probed>>

\* case 'open' without the call of runManage('start').
ManageOpenNoStart ==
  /\ proc = "manage" /\ pc = "m_open"
  /\ probed' = IF isRunning THEN "true" ELSE "false"
  /\ pc' = "m_open_url"
  /\ UNCHANGED <<exitStatus, outro, caller>>
  /\ UNCHANGED <<machine, manageFrame, trace>>

\* case 'open', first half: when the probe does not find the board,
\* runManage('start') is awaited (its own entry checks included).
ManageOpen ==
  /\ proc = "manage" /\ pc = "m_open"
  /\ probed' = IF isRunning THEN "true" ELSE "false"
  /\ IF isRunning
     THEN /\ pc' = "m_open_url"
          /\ UNCHANGED <<exitStatus, outro, caller>>
     ELSE IF ~isInstalled
     THEN /\ Exit(1, "OpenClaw Board is not installed.")
          /\ UNCHANGED caller
     ELSE /\ pc' = "m_start"
          /\ caller' = "open"
          /\ UNCHANGED <<exitStatus, outro>>
  /\ UNCHANGED <<machine, manageFrame, trace>>

\* case 'open', second half: the platform's way to open the URL.
ManageOpenUrl ==
  /\ proc = "manage" /\ pc = "m_open_url"
  /\ IF platform \in {"darwin", "linux"}
     THEN \E ok \in BOOLEAN :
            /\ trace' = Append(trace,
                 Entry(IF platform = "darwin" THEN "open" ELSE "xdg-open",
                       "", ok))
            /\ IF ok THEN Exit(0, "Opening") ELSE Throw
     ELSE /\ Exit(0, "Open in browser:")
          /\ UNCHANGED trace
  /\ UNCHANGED <<machine, manageFrame, caller, probed>>

\* case 'update' without the restart after the last command.
ManageUpdateStepNoRestart(at, cmd, next) ==
  /\ proc = "manage" /\ pc = at
  /\ \E ok \in BOOLEAN :
       /\ ok => existsSync(DEFAULT_INSTALL_DIR)
       /\ trace' = Append(trace, Entry(cmd, DEFAULT_INSTALL_DIR, ok))
       /\ IF ok
          THEN /\ IF next # "m_restart"
                  THEN /\ pc' = next
                       /\ UNCHANGED <<db, exitStatus, outro, caller, probed>>
                  ELSE /\ db' = "migrated"
                       /\ probed' = IF isRunning THEN "true" ELSE "false"
                       /\ Exit(0, "Updated")
                       /\ UNCHANGED caller
          ELSE /\ Throw
               /\ UNCHANGED <<db, caller, probed>>
  /\ UNCHANGED <<platform, tools, fs, agentsDir, plist, loaded, board>>
  /\ UNCHANGED manageFrame

\* One execSync of case 'update', in INSTALL_DIR; after the last one the board
\* is restarted through runManage('restart') if the probe finds it running.
ManageUpdateStep(at, cmd, next) ==
  /\ proc = "manage" /\ pc = at
  /\ \E ok \in BOOLEAN :
       /\ ok => existsSync(DEFAULT_INSTALL_DIR)
       /\ trace' = Append(trace, Entry(cmd, DEFAULT_INSTALL_DIR, ok))
       /\ IF ok
          THEN /\ IF next # "m_restart"
                  THEN /\ pc' = next
                       /\ UNCHANGED <<db, exitStatus, outro, caller, probed>>
                  ELSE /\ db' = "migrated"
                       /\ probed' = IF isRunning THEN "true" ELSE "false"
                       /\ IF isRunning
                          THEN /\ pc' = "m_restart"
                               /\ caller' = "update"
                               /\ UNCHANGED <<exitStatus, outro>>
                          ELSE /\ Exit(0, "Updated")
                               /\ UNCHANGED caller
          ELSE /\ Throw
               /\ UNCHANGED <<db, caller, probed>>
  /\ UNCHANGED <<platform, tools, fs, agentsDir, plist, loaded, board>>
  /\ UNCHANGED manageFrame

ManageUpdatePull ==
  ManageUpdateStep("m_update", "git pull origin main", "m_update_npm")
ManageUpdateNpm ==
  ManageUpdateStep("m_update_npm", "npm install", "m_update_generate")
ManageUpdateGenerate ==
  ManageUpdateStep("m_update_generate", "npx prisma generate", "m_update_push")
ManageUpdatePush ==
  ManageUpdateStep("m_update_push", "npx prisma db push", "m_restart")

\* ---------------------------------------------------------- environment

\* A board that was starting comes up, or gives up; seen by the program only
\* through its probes, so the step is taken between processes, during the
\* waits after a start, and between the probe of `open` and the probe of the
\* `start` it calls.
BoardSettles ==
  /\ board = "starting"
  /\ \/ pc \in {"exited", "m_start_wait", "m_restart_wait"}
     \/ pc = "m_start" /\ caller = "open"
  /\ \E b \in {"running", "stopped"} : board' = b
  /\ UNCHANGED <<platform, tools, fs, agentsDir, plist, loaded, db>>
  /\ UNCHANGED <<process, installerLocals, manageLocals>>

\* The tools a user may have taken off the PATH since the last run.
Removable == {"openclaw"}

\* `which <cmd>` answers for the machine as it is when the process runs: a tool
\* that was there for an earlier run may be gone when the next process starts.
ToolRemoved ==
  /\ pc = "cli"
  /\ runs > 1
  /\ \E t \in Removable \cap tools :
       /\ tools' = tools \ {t}
       /\ snapshot' = [snapshot EXCEPT !.tools = tools \ {t}]
  /\ UNCHANGED <<platform, fs, agentsDir, plist, loaded, db, board>>
  /\ UNCHANGED <<proc, pc, exitStatus, outro, messages, trace, runs, previous>>
  /\ UNCHANGED <<dbCreations, installerLocals, manageLocals>>

\* --------------------------------------------------------- specification

Platforms == {"darwin", "linux", "win32"}
Tools == {"npm", "openclaw", "brew", "psql"}

\* A machine on which nothing has been installed yet, and no process run.
Init ==
  /\ platform \in Platforms
  /\ tools \in SUBSET Tools
  /\ platform # "darwin" => "brew" \notin tools
  /\ fs = [d \in Paths |-> NoDir]
  /\ agentsDir = FALSE
  /\ plist = NoPlist
  /\ loaded = FALSE
  /\ db = "absent"
  /\ board = "stopped"
  /\ proc = "none"
  /\ pc = "exited"
  /\ exitStatus = NoExit
  /\ outro = ""
  /\ messages = <<>>
  /\ trace = <<>>
  /\ snapshot = Machine
  /\ runs = 0
  /\ previous = [command |-> Unset, exitStatus |-> NoExit]
  /\ existing = Null
  /\ action = Unset
  /\ confirmDelete = Unset
  /\ installDir = Unset
  /\ portInput = <<>>
  /\ autoStart = Unset
  /\ lastError = NoError
  /\ lastPrompt = NoPrompt
  /\ dbCreations = 0
  /\ argv = Unset
  /\ command = Unset
  /\ port = 0
  /\ caller = ""
  /\ probed = Unset

Next ==
  \/ Cli
  \/ CliInstall
  \/ SelectAction
  \/ UpdatePull
  \/ UpdateNpm
  \/ UpdateGenerate
  \/ UpdatePush
  \/ ConfirmDelete
  \/ RemoveExisting
  \/ CheckPrerequisites
  \/ ConfirmInstallPg
  \/ InstallPostgres
  \/ StartPostgres
  \/ PromptInstallDir
  \/ PromptPort
  \/ SubmitPort
  \/ PromptAutoStart
  \/ PromptProceed
  \/ Clone
  \/ NpmInstall
  \/ DbCheck
  \/ CreateDb
  \/ CreateDbAsSuperuser
  \/ WriteEnv
  \/ PrismaGenerate
  \/ PrismaDbPush
  \/ LaunchAgentBegin
  \/ LaunchAgentWrite
  \/ LaunchAgentUnload
  \/ LaunchAgentLoad
  \/ CliManage
  \/ ManageStatus
  \/ ManageStart
  \/ ManageStartWait
  \/ ManageStop
  \/ ManageRestart
  \/ ManageRestartWait
  \/ ManageLogs
  \/ ManageOpen
  \/ ManageOpenUrl
  \/ ManageUpdatePull
  \/ ManageUpdateNpm
  \/ ManageUpdateGenerate
  \/ ManageUpdatePush
  \/ BoardSettles
  \/ ToolRemoved

Spec == Init /\ [][Next]_vars

\* ------------------------------------------------ the port prompt alone

PortAlphabet == {"0", "1", "3", "5", "6", "a", "-", " "}

\* Every text of at most n characters.
Texts(alphabet, n) == UNION {[1..k -> alphabet] : k \in 0..n}

\* The installer on a machine with nothing installed and every tool present,
\* after the directory prompt, with any text typed into the port prompt.
InitPort ==
  /\ platform = "darwin"
  /\ tools = Tools
  /\ fs = [d \in Paths |-> NoDir]
  /\ agentsDir = FALSE
  /\ plist = NoPlist
  /\ loaded = FALSE
  /\ db = "absent"
  /\ board = "stopped"
  /\ proc = "install"
  /\ pc = "port_submit"
  /\ exitStatus = NoExit
  /\ outro = ""
  /\ messages = <<>>
  /\ trace = << Entry("checkPrerequisites", "", TRUE),
                Entry("prompt installDir", "", TRUE) >>
  /\ snapshot = Machine
  /\ runs = 1
  /\ previous = [command |-> Unset, exitStatus |-> NoExit]
  /\ dbCreations = 0
  /\ existing = Null
  /\ action = Unset
  /\ confirmDelete = Unset
  /\ installDir = DEFAULT_INSTALL_DIR
  /\ portInput \in Texts(PortAlphabet, MaxPortLen)
  /\ autoStart = Unset
  /\ lastError = NoError
  /\ lastPrompt = Answered("installDir", "text")
  /\ argv = Unset
  /\ command = Unset
  /\ port = 0
  /\ caller = ""
  /\ probed = Unset

SpecPort == InitPort /\ [][SubmitPort]_vars

\* ---------------------------------------------------- the probes alone

EnvTokens == {"PORT=", "3", "0", "x", "\n"}

\* The default directory in any state: absent, or present with its .env
\* absent, unreadable, or holding any content of at most MaxEnvLen tokens.
DirStates ==
  {NoDir} \cup
  { [exists |-> TRUE, parts |-> {}, env |-> e] :
      e \in {NoEnv, [state |-> "unreadable", content |-> <<>>]} \cup
            { [state |-> "file", content |-> c] : c \in Texts(EnvTokens, MaxEnvLen) } }

SomePlist ==
  [present |-> TRUE, npmPath |-> NpmPath, WorkingDirectory |-> DEFAULT_INSTALL_DIR,
   PORT |-> NumToString(DEFAULT_PORT), logs |-> DEFAULT_INSTALL_DIR]

\* runInstaller's and runManage's first reads of the machine: the calls
\* detectExistingInstall() and getPort(), an exception of either noted.
Probe ==
  /\ pc = "probe"
  /\ pc' = "probed"
  /\ existing' = IF detectExistingInstall.threw THEN Null
                 ELSE detectExistingInstall.val
  /\ port' = IF getPort.threw THEN 0 ELSE getPort.val
  /\ outro' = IF detectExistingInstall.threw \/ getPort.threw
              THEN "threw" ELSE "returned"
  /\ UNCHANGED <<machine, proc, exitStatus, messages, trace, snapshot, runs,
                 previous, dbCreations, promptVars, argv, command, caller, probed>>

InitProbe ==
  /\ platform \in Platforms
  /\ tools = Tools
  /\ fs \in [Paths -> DirStates]
  /\ fs[OtherDir] = NoDir
  /\ plist \in {NoPlist, SomePlist}
  /\ agentsDir = plist.present
  /\ loaded = FALSE
  /\ db = "absent"
  /\ board = "stopped"
  /\ proc = "none"
  /\ pc = "probe"
  /\ exitStatus = NoExit
  /\ outro = ""
  /\ messages = <<>>
  /\ trace = <<>>
  /\ snapshot = Machine
  /\ runs = 0
  /\ previous = [command |-> Unset, exitStatus |-> NoExit]
  /\ dbCreations = 0
  /\ existing = Null
  /\ action = Unset
  /\ confirmDelete = Unset
  /\ installDir = Unset
  /\ portInput = <<>>
  /\ autoStart = Unset
  /\ lastError = NoError
  /\ lastPrompt = NoPrompt
  /\ argv = Unset
  /\ command = Unset
  /\ port = 0
  /\ caller = ""
  /\ probed = Unset

SpecProbe == InitProbe /\ [][Probe]_vars

\* ---------------------------------------------------------- properties

\* What a run can change on the machine, the board's own state aside.
DiskOf(m) ==
  [fs |-> m.fs, agentsDir |-> m.agentsDir, plist |-> m.plist,
   loaded |-> m.loaded, db |-> m.db, tools |-> m.tools]
Disk == DiskOf(Machine)

\* The process has run `cmd` (whatever its result).
Ran(cmd) == \E i \in DOMAIN trace : trace[i].cmd = cmd

\* The port a reader of dir's .env finds, 0 when it finds none.
PortIn(dir) ==
  LET e == fs[dir].env
  IN  IF fs[dir].exists /\ e.state = "file" /\ MatchPort(e.content).found
      THEN parseInt(MatchPort(e.content).group).num
      ELSE 0

\* C1: the installation directory is deleted (rm -rf) only after an existing
\* installation was detected, the user chose 'fresh' and answered the
\* confirmation with yes; when the confirmation is declined or cancelled the
\* process exits with status 0 having run nothing and changed no file,
\* directory or service state.
C1_DeleteOnlyWhenConfirmed ==
  /\ (pc = "rm" \/ Ran("rm -rf")) =>
       (~existing.isNull /\ action = "fresh" /\ confirmDelete = "true")
  /\ (proc = "install" /\ confirmDelete \in {"false", CancelSymbol}) =>
       /\ pc = "exited"
       /\ exitStatus = 0
       /\ trace = <<>>
       /\ Disk = DiskOf(snapshot)

C1_Witness ==
  /\ proc = "install" /\ pc = "exited"
  /\ ~existing.isNull
  /\ action = "fresh" /\ confirmDelete = "false"
  /\ existsEnv(DEFAULT_INSTALL_DIR)

UpdateCommands ==
  << "git pull origin main", "npm install", "npx prisma generate",
     "npx prisma db push" >>

\* C2: an Update in which every command succeeds runs exactly git pull, npm
\* install, prisma generate, prisma db push, in that order, in the existing
\* directory, and exits with status 0; no step of an Update touches the
\* service definition file or the service's registration.
C2_UpdateRunsFourCommands ==
  (proc = "install" /\ action = "update") =>
    /\ plist = snapshot.plist
    /\ loaded = snapshot.loaded
    /\ agentsDir = snapshot.agentsDir
    /\ (pc = "exited" /\ \A i \in DOMAIN trace : trace[i].ok) =>
         /\ trace = [i \in 1..4 |-> Entry(UpdateCommands[i], DEFAULT_INSTALL_DIR, TRUE)]
         /\ existing.installDir = DEFAULT_INSTALL_DIR
         /\ exitStatus = 0

C2_Witness ==
  /\ proc = "install" /\ action = "update"
  /\ pc = "exited" /\ exitStatus = 0
  /\ Len(trace) = 4
  /\ plist.present /\ loaded

\* The steps of a fresh install, in program order.
FreshOrder ==
  << "checkPrerequisites",
     "brew install postgresql@17", "brew services start postgresql@17",
     "prompt installDir", "prompt port", "prompt autoStart", "prompt proceed",
     "git clone", "npm install",
     "psql -lqt | grep", "createdb", "psql postgres -c CREATE DATABASE",
     "write .env", "npx prisma generate", "npx prisma db push",
     "which npm", "write plist", "launchctl unload", "launchctl load" >>

Rank ==
  [cmd \in {"rm -rf"} \cup {FreshOrder[i] : i \in DOMAIN FreshOrder} |->
     IF cmd = "rm -rf" THEN 0
     ELSE CHOOSE i \in DOMAIN FreshOrder : FreshOrder[i] = cmd]

\* The steps every fresh install goes through, the others being optional.
Mandatory ==
  { "checkPrerequisites", "prompt installDir", "prompt port", "prompt autoStart",
    "prompt proceed", "git clone", "npm install", "psql -lqt | grep",
    "write .env", "npx prisma generate", "npx prisma db push" }

\* The commands whose failure is an answer, not an error: the existence check,
\* the first creation attempt, the unload.
Tolerated == {"psql -lqt | grep", "createdb", "launchctl unload"}

DbCommands == {"psql -lqt | grep", "createdb", "psql postgres -c CREATE DATABASE"}

NoStepFailed == \A i \in DOMAIN trace : trace[i].ok \/ trace[i].cmd \in Tolerated

\* C3: a fresh install goes through its steps in the fixed order, a step
\* starting only when the one before it has completed successfully, none of
\* the mandatory ones skipped; when no step fails the run ends with status 0
\* and the .env of the chosen directory holds the port entered at the prompt.
C3_FreshInstallOrder ==
  (proc = "install" /\ action # "update") =>
    LET ran == {trace[i].cmd : i \in DOMAIN trace}
    IN  /\ \A i \in 1..(Len(trace) - 1) :
             /\ Rank[trace[i].cmd] < Rank[trace[i + 1].cmd]
             /\ trace[i].ok \/ trace[i].cmd \in Tolerated
        /\ trace # <<>> =>
             \A m \in Mandatory :
               Rank[m] < Rank[trace[Len(trace)].cmd] => m \in ran
        /\ "write .env" \in ran =>
             \E j \in DOMAIN trace : trace[j].cmd \in DbCommands /\ trace[j].ok
        /\ "brew services start postgresql@17" \in ran =>
             "brew install postgresql@17" \in ran
        /\ "which npm" \in ran => autoStart = "true"
        /\ (pc = "exited" /\ "prompt proceed" \in ran /\ NoStepFailed) =>
             /\ exitStatus = 0
             /\ "npx prisma db push" \in ran
             /\ PortIn(installDir) = parseInt(portInput).num
             /\ DigitRun(portInput) = Len(portInput) =>
                  PortIn(installDir) = DigitsValue(portInput)

C3_Witness ==
  /\ proc = "install" /\ pc = "exited" /\ exitStatus = 0
  /\ existing.isNull
  /\ Ran("brew install postgresql@17")
  /\ Ran("createdb")
  /\ Ran("launchctl load")
  /\ portInput = <<"3", "0", "0", "0">>
  /\ PortIn(installDir) = 3000

\* What `start` does to bring the board up.
StartEffects == {"spawn npm start", "launchctl start"}

\* C4: after two `start` commands in a row, both ending with status 0, the
\* board is running and the second call has spawned no process and started no
\* service.
C4_StartTwiceIdempotent ==
  ( /\ proc = "manage" /\ command = "start"
    /\ pc = "exited" /\ exitStatus = 0
    /\ previous = [command |-> "start", exitStatus |-> 0] ) =>
    /\ board = "running"
    /\ \A i \in DOMAIN trace : trace[i].cmd \notin StartEffects

\* C5: `stop` when the liveness probe reports the board as not running
\* returns normally, with status 0, having stopped no service and killed no
\* process.
C5_StopWhenNotRunning ==
  (proc = "manage" /\ command = "stop" /\ probed = "false") =>
    /\ pc = "exited"
    /\ exitStatus = 0
    /\ outro = "Board is not running."
    /\ trace = <<>>
    /\ Disk = DiskOf(snapshot)

C5_Witness ==
  /\ proc = "manage" /\ command = "stop" /\ pc = "exited"
  /\ probed = "false"
  /\ exitStatus = 0
  /\ board # "running"

\* C6: over all the runs the database is created successfully at most once;
\* provisioning starts with the existence check, createdb is attempted only
\* right after a check that reported the database absent, and the
\* privileged creation only right after a createdb that failed.
C6_DatabaseCreatedAtMostOnce ==
  /\ dbCreations <= 1
  /\ proc = "install" =>
       \A i \in DOMAIN trace :
         /\ trace[i].cmd = "psql -lqt | grep" =>
              i > 1 /\ trace[i - 1].cmd = "npm install" /\ trace[i - 1].ok
         /\ trace[i].cmd = "createdb" =>
              i > 1 /\ trace[i - 1] = Entry("psql -lqt | grep", "", FALSE)
         /\ trace[i].cmd = "psql postgres -c CREATE DATABASE" =>
              i > 1 /\ trace[i - 1] = Entry("createdb", "", FALSE)
         /\ trace[i].cmd = "write .env" =>
              i > 1 /\ trace[i - 1].cmd \in DbCommands /\ trace[i - 1].ok

C6_Witness ==
  /\ proc = "install"
  /\ dbCreations = 1
  /\ \E i \in DOMAIN trace : trace[i] = Entry("psql -lqt | grep", "", TRUE)
  /\ ~Ran("createdb")
  /\ Ran("write .env")

UpdatePcs == {"update_pull", "update_npm", "update_generate", "update_push"}

\* C7: the directory prompt of a fresh install refuses a path that exists, so
\* that no later step of that run has an existing directory to clone into;
\* the update flow runs in the existing default directory, with no validation
\* refusing it.
C7_ExistingDirRefusedByFreshOnly ==
  /\ (proc = "install"
        /\ pc \in {"port", "port_submit", "autostart", "proceed", "clone"}) =>
       ~existsSync(installDir)
  /\ (proc = "install" /\ lastError.prompt = "installDir" /\ lastError.input # "") =>
       /\ existsSync(lastError.input)
       /\ lastError.message = "Directory already exists"
       /\ pc \in {"dir", "exited"}
       /\ ~Ran("git clone")
  /\ (proc = "install" /\ action = "update") =>
       /\ existing.installDir = DEFAULT_INSTALL_DIR
       /\ existsSync(DEFAULT_INSTALL_DIR)
       /\ lastError = NoError
       /\ \A i \in DOMAIN trace : trace[i].cwd = DEFAULT_INSTALL_DIR
       /\ pc \in UpdatePcs \cup {"exited"}

C7_Witness ==
  /\ proc = "install" /\ pc = "dir"
  /\ lastError = [prompt |-> "installDir", input |-> DEFAULT_INSTALL_DIR,
                  message |-> "Directory already exists"]

\* s without its trailing white space.
RECURSIVE TrimEnd(_)
TrimEnd(s) ==
  IF s # <<>> /\ s[Len(s)] = " " THEN TrimEnd(SubSeq(s, 1, Len(s) - 1)) ELSE s

\* The text is a decimal integer (a sign and surrounding blanks allowed), and
\* its value.
Unsigned(s) ==
  LET t == TrimEnd(TrimStart(s))
  IN  IF t # <<>> /\ Head(t) \in {"+", "-"} THEN Tail(t) ELSE t
IsInteger(s) == Unsigned(s) # <<>> /\ \A i \in DOMAIN Unsigned(s) : Unsigned(s)[i] \in Digits
IntegerValue(s) ==
  IF Head(TrimStart(s)) = "-" THEN 0 - DigitsValue(Unsigned(s))
  ELSE DigitsValue(Unsigned(s))
DenotesPort(s) == IsInteger(s) /\ IntegerValue(s) \in MIN_PORT..MAX_PORT

\* C8: the port prompt accepts a text exactly when it denotes an integer in
\* 1..65535, and the port stored in the configuration is in 1..65535.
C8_PortAcceptedIffInRange ==
  /\ (proc = "install" /\ pc = "autostart") =>
       /\ DenotesPort(portInput)
       /\ config.port \in MIN_PORT..MAX_PORT
  /\ (proc = "install" /\ pc = "port" /\ lastError.prompt = "port") =>
       ~DenotesPort(portInput)

HasPortEntry(content) ==
  \E i \in 1..(Len(content) - 1) : content[i] = "PORT=" /\ content[i + 1] \in Digits

\* The default directory offers no port: no directory, no readable .env, or
\* no PORT=<digits> in it.
NoParsablePort ==
  LET d == fs[DEFAULT_INSTALL_DIR]
  IN  ~d.exists \/ d.env.state # "file" \/ ~HasPortEntry(d.env.content)

\* C9: in every state of the file system detectExistingInstall and getPort
\* return and do not raise; an installation is reported exactly when the
\* default directory and its .env exist; and when the .env is missing,
\* unreadable or without a PORT=<digits> entry the port reported is the
\* default, 3000.
C9_ProbesNeverRaise ==
  pc = "probed" =>
    /\ outro = "returned"
    /\ existing.isNull <=>
         ~(fs[DEFAULT_INSTALL_DIR].exists
             /\ fs[DEFAULT_INSTALL_DIR].env.state # "absent")
    /\ ~existing.isNull =>
         /\ existing.installDir = DEFAULT_INSTALL_DIR
         /\ existing.hasLaunchAgent = plist.present
    /\ NoParsablePort =>
         /\ port = DEFAULT_PORT
         /\ ~existing.isNull => existing.port = DEFAULT_PORT

C9_Witness ==
  /\ pc = "probed"
  /\ fs[DEFAULT_INSTALL_DIR].env.state = "unreadable"
  /\ ~existing.isNull
  /\ existing.port = DEFAULT_PORT
  /\ port = DEFAULT_PORT

\* The answer ends the run: a cancel, the menu's Cancel, or a no to a
\* proceed-style confirmation.
Declines(lp) ==
  \/ lp.result = CancelSymbol
  \/ lp.prompt = "select" /\ lp.result = "cancel"
  \/ lp.prompt \in {"confirmDelete", "installPg", "proceed"} /\ lp.result = "false"

\* C10: the step in which a prompt of the installer is cancelled or declined
\* ends the process with status 0, runs no command and changes nothing on
\* the machine, what earlier steps did staying done; Cancel in the
\* existing-installation menu ends a run that has run nothing and changed
\* nothing at all.
C10_CancelExitsZeroUntouched ==
  [][ (proc = "install" /\ lastPrompt' # lastPrompt /\ Declines(lastPrompt')) =>
        /\ pc' = "exited"
        /\ exitStatus' = 0
        /\ machine' = machine
        /\ trace' = trace
        /\ lastPrompt'.prompt = "select" =>
             (trace' = <<>> /\ Machine' = snapshot') ]_vars

C10_Witness ==
  /\ proc = "install" /\ pc = "exited" /\ exitStatus = 0
  /\ lastPrompt = Answered("installDir", CancelSymbol)
  /\ \E i \in DOMAIN trace : trace[i] = Entry("rm -rf", DEFAULT_INSTALL_DIR, TRUE)
  /\ snapshot.fs[DEFAULT_INSTALL_DIR].exists
  /\ ~existsSync(DEFAULT_INSTALL_DIR)

\* The tools an installation needs on this platform, and the name the
\* prerequisite check reports each under.
Required ==
  {"npm", "openclaw"} \cup (IF platform = "darwin" THEN {"brew"} ELSE {})
Label(tool) ==
  CASE tool = "npm" -> "npm (Node.js)"
    [] tool = "openclaw" -> "openclaw"
    [] tool = "brew" -> "homebrew"

PromptSteps == {"prompt installDir", "prompt port", "prompt autoStart", "prompt proceed"}

\* C11: the prerequisite check reports exactly the required tools that are
\* absent (npm, openclaw, and brew on macOS), each once; an installer run whose
\* check found one missing has logged a message for each, has exited with
\* status 1, and has shown no configuration prompt and installed nothing; a
\* run that went past the check has every required tool.
C11_PrerequisitesAllReported ==
  /\ {checkPrerequisites.missing[i] : i \in DOMAIN checkPrerequisites.missing}
       = {Label(t) : t \in Required \ tools}
  /\ Len(checkPrerequisites.missing) = Cardinality(Required \ tools)
  /\ checkPrerequisites.ok <=> Required \subseteq tools
  /\ (proc = "install" /\ Ran("checkPrerequisites")) =>
       IF Required \subseteq tools
       THEN /\ \A i \in DOMAIN trace :
                 trace[i].cmd = "checkPrerequisites" => trace[i].ok
            /\ \A t \in {"npm", "openclaw", "brew"} : \A i \in DOMAIN messages :
                 messages[i] # MissingMessage(Label(t))
       ELSE /\ pc = "exited"
            /\ exitStatus = 1
            /\ {messages[i] : i \in DOMAIN messages}
                 = {MissingMessage(Label(t)) : t \in Required \ tools}
            /\ Len(messages) = Cardinality(Required \ tools)
            /\ trace[Len(trace)] = Entry("checkPrerequisites", "", FALSE)
            /\ \A i \in DOMAIN trace : trace[i].cmd \in {"rm -rf", "checkPrerequisites"}
            /\ lastPrompt.prompt \notin {"installPg", "installDir", "port", "autoStart", "proceed"}

C11_Witness ==
  /\ proc = "install" /\ pc = "exited" /\ exitStatus = 1
  /\ platform = "darwin"
  /\ tools \cap Required = {}
  /\ Len(messages) = 3
  /\ outro = "Please install missing dependencies and try again."

\* The commands runManage knows.
Recognized ==
  {"help", "--help", "-h", "status", "start", "stop", "restart", "logs", "open",
   "update"}

\* The usage text is the last thing the process printed.
UsagePrinted == outro \in {"Usage:", "Unknown command: " \o command \o " Usage:"}

\* C12: with no argument or `install` only the installer runs, every other
\* token goes to runManage, and a token runManage does not know ends the
\* process with the usage text printed and a nonzero status, whether or not
\* the board is installed.
C12_CliDispatch ==
  /\ proc = "install" => command = Unset
  /\ proc = "manage" => command \notin InstallArgs
  /\ (proc = "manage" /\ command \notin Recognized) =>
       /\ pc = "exited"
       /\ exitStatus # 0
       /\ UsagePrinted
       /\ trace = <<>>

\* The commands the program runs inside a try/catch that swallows the failure:
\* the database check and the first createdb, launchctl unload, and the pkill
\* of stop and restart.
Swallowed == Tolerated \cup {"pkill -f openclaw-board.*server"}

\* Every failed command outside `except` is the last thing its process did,
\* and the process has ended with a nonzero status.
FailureAborts(except) ==
  \A i \in DOMAIN trace :
    (~trace[i].ok /\ trace[i].cmd \notin except) =>
      /\ i = Len(trace)
      /\ pc = "exited"
      /\ exitStatus \notin {0, NoExit}

Did(cmd) == \E i \in DOMAIN trace : trace[i].cmd = cmd /\ trace[i].ok

\* C14: a fresh install in which a step failed after the git clone succeeded
\* has ended with status 1 and has undone nothing: the cloned directory is on
\* disk, and so are the .env, the logs directory and the service definition
\* if they were written, the database if it was created, and its schema if it
\* was pushed.
C14_NoRollbackAfterClone ==
  (proc = "install" /\ action # "update" /\ Did("git clone") /\ ~NoStepFailed) =>
    /\ pc = "exited"
    /\ exitStatus = 1
    /\ existsSync(installDir)
    /\ Did("write .env") =>
         fs[installDir].env =
           [state |-> "file", content |-> EnvContent(DbUrl, config.port)]
    /\ ~Did("write .env") => fs[installDir].env = NoEnv
    /\ (Did("createdb") \/ Did("psql postgres -c CREATE DATABASE")) => db # "absent"
    /\ Did("npx prisma db push") => db = "migrated"
    /\ Ran("write plist") => "logs" \in fs[installDir].parts /\ agentsDir
    /\ Did("write plist") => plist = PlistContent(config, NpmPath)

C14_Witness ==
  /\ proc = "install" /\ pc = "exited" /\ exitStatus = 1
  /\ Did("write plist")
  /\ trace[Len(trace)] = Entry("launchctl load", "", FALSE)
  /\ existsEnv(installDir)
  /\ plist.present

\* What setupLaunchAgent runs and writes.
RegistrationSteps == {"which npm", "write plist", "launchctl unload", "launchctl load"}

\* C15: off macOS a fresh install with autostart requested, once its schema
\* push has succeeded, goes on to end with status 0: the registration logs a
\* warning, runs no command, and writes neither the service definition nor
\* the logs directory nor the LaunchAgents directory.
C15_AutostartOffMacWarnsOnly ==
  (proc = "install" /\ platform # "darwin" /\ autoStart = "true"
     /\ Did("npx prisma db push")) =>
    /\ \/ pc = "launchAgent"
       \/ /\ pc = "exited"
          /\ exitStatus = 0
          /\ outro = "Happy tasking!"
          /\ messages = <<"Auto-start is only supported on macOS">>
    /\ \A i \in DOMAIN trace : trace[i].cmd \notin RegistrationSteps
    /\ trace[Len(trace)].cmd = "npx prisma db push"
    /\ plist = snapshot.plist
    /\ loaded = snapshot.loaded
    /\ agentsDir = snapshot.agentsDir
    /\ fs[installDir].parts = {}

C15_Witness ==
  /\ proc = "install" /\ pc = "exited" /\ exitStatus = 0
  /\ platform = "linux"
  /\ autoStart = "true"
  /\ Did("npx prisma db push")
  /\ messages = <<"Auto-start is only supported on macOS">>
  /\ ~plist.present

\* C16: off macOS, once the user has accepted the automatic PostgreSQL
\* install, the installer throws: it ends with status 1 having run no brew
\* command, shown no configuration prompt, cloned nothing and written nothing;
\* so off macOS no install gets to the directory prompt without psql.
C16_PgInstallOffMacAborts ==
  (proc = "install" /\ platform # "darwin") =>
    /\ lastPrompt = Answered("installPg", "true") =>
         /\ pc \in {"pgInstall", "exited"}
         /\ pc = "exited" => (exitStatus = 1 /\ outro = "Installation failed:")
         /\ \A i \in DOMAIN trace : trace[i].cmd \in {"rm -rf", "checkPrerequisites"}
         /\ installDir = Unset /\ portInput = <<>> /\ autoStart = Unset
         /\ plist = snapshot.plist /\ db = snapshot.db /\ tools = snapshot.tools
         /\ \A d \in Paths : fs[d] \in {snapshot.fs[d], NoDir}
    /\ ~Ran("brew install postgresql@17")
    /\ ~Ran("brew services start postgresql@17")
    /\ "psql" \notin tools => ~Ran("prompt installDir")

C16_Witness ==
  /\ proc = "install" /\ pc = "exited" /\ exitStatus = 1
  /\ platform = "linux"
  /\ "psql" \notin tools
  /\ lastPrompt = Answered("installPg", "true")
  /\ trace = <<Entry("checkPrerequisites", "", TRUE)>>

OpenCommands == {"open", "xdg-open"}

\* What `start` prints last when it returns.
StartReturns ==
  {"Board is already running.", "Board started", "Board may still be starting..."}

\* C17: `open` calls `start` exactly when its probe reports the board as not
\* running, once; the URL is opened only when that call has returned (not when
\* it threw), as the last thing the process does; when the probe finds the
\* board running the URL is opened and nothing is started.
C17_OpenStartsWhenNotRunning ==
  (proc = "manage" /\ command = "open") =>
    /\ probed = Unset => (pc \in {"m_open", "exited"} /\ trace = <<>>)
    /\ probed = "true" =>
         /\ pc \in {"m_open_url", "exited"}
         /\ \A i \in DOMAIN trace : trace[i].cmd \in OpenCommands
    /\ probed = "false" => pc \in {"m_start", "m_start_wait", "m_open_url", "exited"}
    /\ pc \in {"m_start", "m_start_wait"} => caller = "open"
    /\ caller = "open" =>
         (pc \in {"m_start", "m_start_wait"} \/ (pc = "exited" /\ exitStatus = 1))
    /\ \A i \in DOMAIN trace :
         /\ trace[i].cmd \in StartEffects => (i = 1 /\ probed = "false")
         /\ trace[i].cmd \in OpenCommands =>
              /\ i = Len(trace)
              /\ i > 1 => (trace[1].cmd \in StartEffects /\ trace[1].ok)
         /\ ~trace[i].ok => (pc = "exited" /\ exitStatus = 1 /\ i = Len(trace))
    /\ (pc = "m_open_url" /\ probed = "false") => outro \in StartReturns
    /\ (pc = "m_open_url" /\ probed = "true") => trace = <<>>
    /\ (pc = "exited" /\ exitStatus = 0 /\ platform # "win32") =>
         trace[Len(trace)].cmd \in OpenCommands

C17_Witness ==
  /\ proc = "manage" /\ command = "open" /\ pc = "exited" /\ exitStatus = 0
  /\ probed = "false"
  /\ trace = << Entry("spawn npm start", DEFAULT_INSTALL_DIR, TRUE),
                Entry("open", "", TRUE) >>

\* C18: a service registration happens on macOS only; the service definition
\* it writes is the one rendered from the current configuration, whatever was
\* there before, and is written before any launchctl command; the unload
\* comes right after the write and the load right after the unload, whether
\* or not the unload succeeded; a failed load ends the process with status 1,
\* a successful one with status 0 and the service loaded.
C18_RegistrationRewritesThenReloads ==
  proc = "install" =>
    /\ (\E i \in DOMAIN trace : trace[i].cmd \in RegistrationSteps) =>
         (platform = "darwin" /\ autoStart = "true" /\ Did("npx prisma db push"))
    /\ Did("write plist") =>
         /\ plist = PlistContent(config, NpmPath)
         /\ plist.PORT = NumToString(parseInt(portInput).num)
         /\ plist.WorkingDirectory = installDir
         /\ pc # "exited" => pc \in {"la_unload", "la_load"}
    /\ \A i \in DOMAIN trace :
         /\ trace[i].cmd = "write plist" =>
              i > 1 /\ trace[i - 1] = Entry("which npm", "", TRUE)
         /\ trace[i].cmd = "launchctl unload" =>
              /\ i > 1 /\ trace[i - 1] = Entry("write plist", "", TRUE)
              /\ i = Len(trace) => pc = "la_load"
         /\ trace[i].cmd = "launchctl load" =>
              /\ i > 1 /\ trace[i - 1].cmd = "launchctl unload"
              /\ i = Len(trace) /\ pc = "exited"
              /\ exitStatus = IF trace[i].ok THEN 0 ELSE 1
              /\ trace[i].ok => loaded

C18_Witness ==
  /\ proc = "install" /\ pc = "exited" /\ exitStatus = 0
  /\ snapshot.plist.present
  /\ snapshot.plist.PORT # plist.PORT
  /\ \E i \in DOMAIN trace : trace[i] = Entry("launchctl unload", "", FALSE)
  /\ Did("launchctl load")

\* C19: when an installer run has ended successfully and the service
\* definition exists together with the .env of the directory it names, the
\* PORT of the service definition is the PORT of that .env.
C19_PlistPortIsEnvPort ==
  ( /\ proc = "install" /\ pc = "exited" /\ exitStatus = 0
    /\ plist.present
    /\ existsSync(plist.WorkingDirectory)
    /\ fs[plist.WorkingDirectory].env.state = "file" ) =>
    DigitsValue(plist.PORT) = PortIn(plist.WorkingDirectory)

\* What `restart` runs.
RestartCommands ==
  {"launchctl kickstart -k", "pkill -f openclaw-board.*server", "spawn npm start"}

C21_UpdateFailsAtStep ==
  (proc = "install" /\ action = "update" /\ ~NoStepFailed) =>
    LET k == Len(trace)
    IN  /\ k \in 1..4
        /\ trace = [i \in 1..k |->
                      Entry(UpdateCommands[i], existing.installDir, i < k)]
        /\ pc = "exited"
        /\ exitStatus = 1
        /\ outro = "Installation failed:"
        /\ Disk = DiskOf(snapshot)

C21_Witness ==
  /\ proc = "install" /\ action = "update"
  /\ pc = "exited" /\ exitStatus = 1
  /\ Len(trace) = 3
  /\ trace[2] = Entry("npm install", DEFAULT_INSTALL_DIR, TRUE)
  /\ trace[3] = Entry("npx prisma generate", DEFAULT_INSTALL_DIR, FALSE)

\* The run ended on the report of missing prerequisites (process.exit(1)).
PrerequisitesUnmet ==
  /\ proc = "install" /\ pc = "exited" /\ exitStatus = 1
  /\ outro = "Please install missing dependencies and try again."

\* C22: an installer run that exits with status 1 because prerequisites are
\* missing has changed nothing on the machine before exiting: in particular
\* it has not deleted an existing installation.
C22_PrereqExitMutatesNothing ==
  PrerequisitesUnmet =>
    /\ ~Ran("rm -rf")
    /\ fs = snapshot.fs
    /\ Disk = DiskOf(snapshot)

\* C23: a confirmed fresh reinstall deletes the installation directory and
\* nothing else: right after the removal the rest of the machine is as the run
\* found it, and as long as the run has not gone into the service registration
\* (which it does only when autostart is accepted) the service definition file
\* and its registration are the ones the run found, so a definition present
\* before a reinstall with autostart declined is present after it, with its
\* old directory and port.
C23_ReinstallKeepsServiceDefinition ==
  (proc = "install" /\ action = "fresh" /\ confirmDelete = "true") =>
    /\ (Len(trace) = 1 /\ Did("rm -rf")) =>
         Disk = [DiskOf(snapshot) EXCEPT !.fs[existing.installDir] = NoDir]
    /\ autoStart # "true" => pc \notin {"launchAgent", "la_write", "la_unload", "la_load"}
    /\ (\A i \in DOMAIN trace : trace[i].cmd \notin RegistrationSteps) =>
         /\ plist = snapshot.plist
         /\ loaded = snapshot.loaded
    /\ autoStart = "false" =>
         /\ \A i \in DOMAIN trace : trace[i].cmd \notin RegistrationSteps
         /\ plist = snapshot.plist
         /\ loaded = snapshot.loaded

C23_Witness ==
  /\ proc = "install" /\ action = "fresh" /\ confirmDelete = "true"
  /\ autoStart = "false"
  /\ pc = "exited" /\ exitStatus = 0
  /\ Did("npx prisma db push")
  /\ installDir = OtherDir
  /\ plist.present /\ loaded
  /\ plist.WorkingDirectory = DEFAULT_INSTALL_DIR
  /\ ~existsSync(DEFAULT_INSTALL_DIR)

\* On machine m the default directory and its .env file both exist.
DefaultDirInstalled(m) ==
  /\ m.fs[DEFAULT_INSTALL_DIR].exists
  /\ m.fs[DEFAULT_INSTALL_DIR].env.state # "absent"

\* C24: detection looks at the default directory only.  isInstalled answers
\* yes, and what detectExistingInstall returned to the installer is an
\* installation, exactly when the default directory and its .env both exist,
\* whatever any other directory holds, and the directory reported is the
\* default one; so an installer run offers the Update / Fresh Install menu,
\* and a management command other than help gets past the "not installed"
\* exit, exactly when the process found that directory and file: an
\* installation made into another directory is seen by neither.
C24_DetectionKeyedOnDefaultDir ==
  /\ isInstalled <=> DefaultDirInstalled(Machine)
  /\ proc = "install" =>
       /\ existing.isNull <=> ~DefaultDirInstalled(snapshot)
       /\ ~existing.isNull => existing.installDir = DEFAULT_INSTALL_DIR
       /\ pc \in {"select", "confirmDelete", "rm"} \cup UpdatePcs => ~existing.isNull
  /\ (proc = "manage" /\ command \notin {"help", "--help", "-h"}) =>
       (~DefaultDirInstalled(snapshot) <=>
          /\ pc = "exited"
          /\ exitStatus = 1
          /\ outro = "OpenClaw Board is not installed."
          /\ trace = <<>>)

C24_Witness ==
  /\ proc = "manage" /\ command = "status"
  /\ pc = "exited" /\ exitStatus = 1
  /\ outro = "OpenClaw Board is not installed."
  /\ existsEnv(OtherDir)
  /\ db = "migrated"
  /\ ~existsSync(DEFAULT_INSTALL_DIR)

\* On machine m the default directory exists without a .env file: what an
\* install that failed after its clone and before its .env write leaves.
HalfInstalled(m) ==
  /\ m.fs[DEFAULT_INSTALL_DIR].exists
  /\ m.fs[DEFAULT_INSTALL_DIR].env.state = "absent"

\* C25: a process that finds the default directory there without its .env
\* leaves it so.  An installer run then detects no installation and offers no
\* Update / Fresh Install menu, so it never deletes the directory; its
\* directory prompt answers the default path with "Directory already exists",
\* so the run never installs into it; and since every later process finds the
\* machine as this one left it, the installer cannot complete an install into
\* the default directory until something else removes it.
C25_HalfInstalledStaysSo ==
  HalfInstalled(snapshot) =>
    /\ HalfInstalled(Machine)
    /\ proc = "install" =>
         /\ existing.isNull
         /\ action = Unset /\ confirmDelete = Unset
         /\ pc \notin {"select", "confirmDelete", "rm"} \cup UpdatePcs
         /\ ~Ran("rm -rf")
         /\ installDir # DEFAULT_INSTALL_DIR
         /\ pc = "dir" => ValidateDir(DEFAULT_INSTALL_DIR) = "Directory already exists"
         /\ lastError.input = DEFAULT_INSTALL_DIR =>
              lastError.message = "Directory already exists"
         /\ \A i \in DOMAIN trace : trace[i].cwd # DEFAULT_INSTALL_DIR

C25_Witness ==
  /\ runs = 3
  /\ previous = [command |-> Unset, exitStatus |-> 0]
  /\ HalfInstalled(snapshot)
  /\ snapshot.db = "absent"
  /\ proc = "install" /\ pc = "dir"
  /\ existing.isNull
  /\ lastError = [prompt |-> "installDir", input |-> DEFAULT_INSTALL_DIR,
                  message |-> "Directory already exists"]

====
